---------------------------- MODULE Spec2Model ----------------------------
(***************************************************************************)
(* State-machine model of PIXI.AbstractBatchRenderer                       *)
(* (packages/core/src/batch/AbstractBatchRenderer.js).                     *)
(*                                                                         *)
(* The variables are the fields of one renderer instance, the transient    *)
(* batch fields of the base textures it draws, and a log of what the last  *)
(* operation did to its collaborators (graphics context, scratch buffers). *)
(* Every public operation (render, flush, onPrerender) is one action; the  *)
(* private methods it calls are operators over a record of the fields.     *)
(***************************************************************************)
EXTENDS Integers, Sequences, FiniteSets, TLC

\* ------------------------------------------------------------------ bounds

\* this.size: the number of vertices buffered before render() flushes.
Size == 8
\* Largest texture-unit count the device capability query may report.
MaxTexUnits == 2
\* render() and flush() are disabled once BaseTexture._globalBatch reaches this.
MaxTick == 7
\* Largest capacity requested of the buffer pool when it is exercised on its own.
MaxRequest == 17
\* this.size of a renderer that batches meshes.
MeshSize == 12

\* ------------------------------------------------------- program constants

\* this.vertexSize: 32-bit lanes per vertex record.
vertexSize == 6
\* this._packedGeometryPoolSize after construction.
InitialGeometryPoolSize == 2
\* Smallest attribute size class, in vertex records.
AttributeGranule == 8
\* Smallest index size class, in indices.
IndexGranule == 12

\* blend modes of @pixi/constants used by the submitted elements
NORMAL == 0
MULTIPLY == 2
NORMAL_NPM == 10

\* --------------------------------------------------------------- the inputs

\* Base textures the scene draws with.
Textures == {"t1", "t2"}
NoTexture == "null"

\* baseTexture.alphaMode: t1 holds premultiplied pixels, t2 straight alpha.
alphaMode(t) == IF t = "t1" THEN 1 ELSE 0

\* Element geometry: a sprite's quad (vertex count, local indices).
Quad == [nv |-> 4, indices |-> <<0, 1, 2, 0, 2, 3>>]
Geometries == {Quad}
NoGeometry == [nv |-> 0, indices |-> <<>>]
\* Element geometry: a mesh of one triangle.
Triangle == [nv |-> 3, indices |-> <<0, 1, 2>>]

BlendModes == {NORMAL, MULTIPLY}

\* A drawable element as render() reads it.
\* (element._texture.valid is all render() reads of an element it rejects.)
Elements ==
    {e \in [tex : Textures, valid : BOOLEAN, blendMode : BlendModes, geom : Geometries] :
        e.valid \/ (e.blendMode = NORMAL /\ e.geom = Quad)}
\* Batched meshes of one triangle, their textures ready.
MeshElements == [tex : Textures, valid : {TRUE}, blendMode : {NORMAL}, geom : {Triangle}]
\* A slot of _bufferedElements that was set to null.
NullElement == [tex |-> NoTexture, valid |-> FALSE, blendMode |-> -1, geom |-> NoGeometry]

\* element.vertexData.length / 2
VertexCount(e) == e.geom.nv
\* element.indices.length
IndexCount(e) == Len(e.geom.indices)

\* ---------------------------------------------------- external collaborators

\* premultiplyBlendMode[premultiplied][blendMode] of @pixi/utils.
premultiplyBlendMode(premultiplied, blendMode) ==
    IF premultiplied = 1
    THEN (IF blendMode = NORMAL_NPM THEN NORMAL ELSE blendMode)
    ELSE (IF blendMode = NORMAL THEN NORMAL_NPM ELSE blendMode)

RECURSIVE Pow2From(_, _)
Pow2From(p, v) == IF p >= v THEN p ELSE Pow2From(2 * p, v)
\* nextPow2 of @pixi/utils: the smallest power of two >= v (1 for v = 0).
nextPow2(v) == Pow2From(1, v)

RECURSIVE log2(_)
\* log2 of @pixi/utils, on a power of two.
log2(p) == IF p <= 1 THEN 0 ELSE 1 + log2(p \div 2)

\* Mutant of Ceil: the quotient is rounded down.
Floor(a, b) == a \div b

\* Math.ceil(a / b) on non-negative integers
Ceil(a, b) == (a + b - 1) \div b

\* new BatchDrawCall()
BatchDrawCall == [texArray |-> -1, blend |-> 0, start |-> 0, size |-> 0]
\* new BatchTextureArray(): elements[0 .. count-1], count = Len
BatchTextureArray == <<>>


\* ------------------------------------------------------------------- state

VARIABLES
    this_size,               \* this.size
    _vertexCount,            \* this._vertexCount
    _indexCount,             \* this._indexCount
    _bufferedElements,       \* this._bufferedElements[0 .. _bufferSize-1]
    _bufferedTextures,       \* this._bufferedTextures[0 .. _bufferSize-1]
    _bufferSize,             \* this._bufferSize
    _drawCalls,              \* this._drawCalls: pool index -> BatchDrawCall
    _textureArrays,          \* this._textureArrays: pool index -> BatchTextureArray
    _dcIndex,                \* this._dcIndex
    _aIndex,                 \* this._aIndex
    _iIndex,                 \* this._iIndex
    _attributeBuffer,        \* this._attributeBuffer (0 = null, else a buffer identity)
    _indexBuffer,            \* this._indexBuffer (0 = null, else a buffer identity)
    _aBuffers,               \* this._aBuffers: key -> buffer identity
    _iBuffers,               \* this._iBuffers: key -> buffer identity
    MAX_TEXTURES,            \* this.MAX_TEXTURES
    _flushId,                \* this._flushId
    _packedGeometryPoolSize, \* this._packedGeometryPoolSize
    CAN_UPLOAD_SAME_BUFFER,  \* settings.CAN_UPLOAD_SAME_BUFFER
    _batchEnabled,           \* baseTexture._batchEnabled of every texture
    _globalBatch,            \* BaseTexture._globalBatch
    crashed,                 \* a TypeError left the last operation
    allocs,                  \* every scratch buffer constructed so far; identity = position
    last,                    \* the operation performed last, and the element it was given
    acquired,                \* the scratch-buffer requests of the last operation, with what they returned
    flushed,                 \* the elements buffered when the last operation's flush began
    groups,                  \* the texture-array groups the last operation closed
    packed,                  \* the elements the last operation packed, with what was written
    gl                       \* the graphics-context calls the last operation made

vars == <<this_size, _vertexCount, _indexCount, _bufferedElements, _bufferedTextures, _bufferSize,
          _drawCalls, _textureArrays, _dcIndex, _aIndex, _iIndex, _attributeBuffer,
          _indexBuffer, _aBuffers, _iBuffers, MAX_TEXTURES, _flushId,
          _packedGeometryPoolSize, CAN_UPLOAD_SAME_BUFFER, _batchEnabled, _globalBatch,
          crashed, allocs, last, acquired, flushed, groups, packed, gl>>

\* The fields as one record, for the methods below.
This ==
    [size |-> this_size, _vertexCount |-> _vertexCount, _indexCount |-> _indexCount,
     _bufferedElements |-> _bufferedElements, _bufferedTextures |-> _bufferedTextures,
     _bufferSize |-> _bufferSize, _drawCalls |-> _drawCalls,
     _textureArrays |-> _textureArrays, _dcIndex |-> _dcIndex, _aIndex |-> _aIndex,
     _iIndex |-> _iIndex, _attributeBuffer |-> _attributeBuffer,
     _indexBuffer |-> _indexBuffer, _aBuffers |-> _aBuffers, _iBuffers |-> _iBuffers,
     MAX_TEXTURES |-> MAX_TEXTURES, _flushId |-> _flushId,
     _packedGeometryPoolSize |-> _packedGeometryPoolSize,
     CAN_UPLOAD_SAME_BUFFER |-> CAN_UPLOAD_SAME_BUFFER,
     _batchEnabled |-> _batchEnabled, _globalBatch |-> _globalBatch,
     crashed |-> crashed, allocs |-> allocs,
     acquired |-> <<>>, flushed |-> <<>>, groups |-> <<>>, packed |-> <<>>, gl |-> <<>>]

\* ------------------------------------------------------- growable buffer pool

\* Mutant of AttributeCacheHit: the cache is read by the key getIndexBuffer uses.
AttributeCacheHitByIndex(pool, roundedSize, roundedSizeIndex) ==
    roundedSizeIndex \in DOMAIN pool

\* The cache lookup of getAttributeBuffer: `this._aBuffers[roundedSize]` holds a buffer.
AttributeCacheHit(pool, roundedSize, roundedSizeIndex) ==
    roundedSize \in DOMAIN pool

\* The cache lookup of getIndexBuffer: `this._iBuffers[roundedSizeIndex]` holds a buffer.
IndexCacheHit(pool, roundedSize, roundedSizeIndex) ==
    roundedSizeIndex \in DOMAIN pool

\* The buffer the last request returned.
Returned(s) == s.acquired[Len(s.acquired)].buffer

\* getAttributeBuffer(size) with roundedP2 computed: the fields afterwards; the buffer
\* returned is logged in `acquired`.
\* _aBuffers is a plain object, so the `length` test of lines 622-625 is never true.
AttributeBufferOfClass(s, size, roundedP2) ==
    IF AttributeCacheHit(s._aBuffers, roundedP2 * AttributeGranule, log2(roundedP2))
    THEN [s EXCEPT !.acquired = Append(@, [pool |-> "attribute", size |-> size,
                                          buffer |-> s._aBuffers[roundedP2 * AttributeGranule]])]
    ELSE [s EXCEPT !._aBuffers = (roundedP2 * AttributeGranule :> Len(s.allocs) + 1) @@ @,
                   !.allocs = Append(@, [pool |-> "attribute",
                                         class |-> roundedP2 * AttributeGranule,
                                         length |-> roundedP2 * AttributeGranule * vertexSize]),
                   !.acquired = Append(@, [pool |-> "attribute", size |-> size,
                                           buffer |-> Len(s.allocs) + 1])]

\* Mutant of getAttributeBuffer: the quotient is not rounded to a power of two.
getAttributeBufferUnrounded(s, size) ==
    AttributeBufferOfClass(s, size, Ceil(size, AttributeGranule))

\* getAttributeBuffer(size)
getAttributeBuffer(s, size) ==
    AttributeBufferOfClass(s, size, nextPow2(Ceil(size, AttributeGranule)))

\* getIndexBuffer(size) with roundedP2 computed: the fields afterwards; the buffer
\* returned is logged in `acquired`.
\* _iBuffers is a plain object too: the `length` test of lines 653-656 is never true.
IndexBufferOfClass(s, size, roundedP2) ==
    IF IndexCacheHit(s._iBuffers, roundedP2 * IndexGranule, log2(roundedP2))
    THEN [s EXCEPT !.acquired = Append(@, [pool |-> "index", size |-> size,
                                          buffer |-> s._iBuffers[log2(roundedP2)]])]
    ELSE [s EXCEPT !._iBuffers = (log2(roundedP2) :> Len(s.allocs) + 1) @@ @,
                   !.allocs = Append(@, [pool |-> "index",
                                         class |-> roundedP2 * IndexGranule,
                                         length |-> roundedP2 * IndexGranule]),
                   !.acquired = Append(@, [pool |-> "index", size |-> size,
                                           buffer |-> Len(s.allocs) + 1])]

\* getIndexBuffer(size)
getIndexBuffer(s, size) ==
    IndexBufferOfClass(s, size, nextPow2(Ceil(size, IndexGranule)))

\* ------------------------------------------------------------ geometry packer

\* The attribute lanes written per vertex (x, y, u, v, argb, texture slot).
LanesWritten == 6

\* Mutant of PackedVerticesAt: the lane cursor is taken for a vertex count.
PackedVerticesInLanes(aIndex) == aIndex

\* The first vertex record of a packInterleavedGeometry call.
PackedVerticesAt(aIndex) == aIndex \div vertexSize

\* What packInterleavedGeometry writes for one element: its place in the attribute and
\* index buffers, and the indices written.
Written(s, j, element, aIndex, iIndex, packedVertices) ==
    [elem |-> j,
     aStart |-> aIndex,
     iStart |-> iIndex,
     vertices |-> VertexCount(element),
     indices |-> [k \in 1..IndexCount(element) |-> packedVertices + element.geom.indices[k]],
     stamp |-> s._batchEnabled[element.tex]]

RECURSIVE PackLoop(_, _, _, _, _, _)
\* The loop of packInterleavedGeometry over elements j .. finish-1.
PackLoop(s, j, finish, aIndex, iIndex, packedVertices) ==
    IF ~(j < finish)
    THEN [s EXCEPT !._aIndex = aIndex, !._iIndex = iIndex]
    ELSE PackLoop([s EXCEPT !.packed = Append(@, Written(s, j, s._bufferedElements[j + 1],
                                                         aIndex, iIndex, packedVertices)),
                            !._bufferedElements[j + 1] = NullElement],
                  j + 1, finish,
                  aIndex + LanesWritten * VertexCount(s._bufferedElements[j + 1]),
                  iIndex + IndexCount(s._bufferedElements[j + 1]),
                  packedVertices + VertexCount(s._bufferedElements[j + 1]))

\* packInterleavedGeometry(start, finish)
packInterleavedGeometry(s, start, finish) ==
    PackLoop(s, start, finish, s._aIndex, s._iIndex, PackedVerticesAt(s._aIndex))

\* ----------------------------------------------------------- draw call builder

\* The effective blend mode of a sprite: premultiplyBlendMode[tex.alphaMode ? 1 : 0][blendMode]
SpriteBlendMode(sprite) ==
    premultiplyBlendMode(IF alphaMode(sprite.tex) # 0 THEN 1 ELSE 0, sprite.blendMode)

\* Mutant of RunBreaks: a draw call is closed at every element after the first.
RunBreaksAtEveryElement(start, i, blend, spriteBlendMode) ==
    start < i

\* The test that closes a draw call inside the loop of buildDrawCalls.
RunBreaks(start, i, blend, spriteBlendMode) ==
    start > i /\ blend # spriteBlendMode

\* The test that emits the last draw call of buildDrawCalls.
LastRunPending(drawCall, start, finish) ==
    drawCall.start < finish

\* drawCall.start = this._iIndex
StartDrawCall(s, dcIndex) ==
    [s EXCEPT !._drawCalls[dcIndex].start = s._iIndex]

\* drawCall.size = this._iIndex - drawCall.start
SizeDrawCall(s, dcIndex) ==
    [s EXCEPT !._drawCalls[dcIndex].size = s._iIndex - s._drawCalls[dcIndex].start]

\* drawCall.start = ...; this.packInterleavedGeometry(start, finish); drawCall.size = ...
PackDrawCall(s, dcIndex, start, finish) ==
    SizeDrawCall(packInterleavedGeometry(StartDrawCall(s, dcIndex), start, finish), dcIndex)

RECURSIVE BlendLoop(_, _, _, _, _, _)
RECURSIVE NextDrawCall(_, _, _, _, _, _)

\* drawCall = drawCalls[++dcIndex]; drawCall.texArray = texArray; and the loop goes on
\* (dcIndex is the incremented index, i the element that broke the run).
NextDrawCall(s, texArray, i, finish, dcIndex, spriteBlendMode) ==
    IF dcIndex \notin DOMAIN s._drawCalls
    THEN \* drawCalls[++dcIndex] is undefined: drawCall.texArray throws
         [s |-> [s EXCEPT !.crashed = TRUE], start |-> i, dcIndex |-> dcIndex]
    ELSE BlendLoop([s EXCEPT !._drawCalls[dcIndex].texArray = texArray,
                             !._drawCalls[dcIndex].blend = spriteBlendMode],
                   texArray, i, i + 1, finish, dcIndex)

\* The loop of buildDrawCalls over elements i .. finish-1:
\* [s |-> the fields, start |-> local start, dcIndex |-> local dcIndex] afterwards.
BlendLoop(s, texArray, start, i, finish, dcIndex) ==
    IF s.crashed \/ ~(i < finish)
    THEN [s |-> s, start |-> start, dcIndex |-> dcIndex]
    ELSE IF RunBreaks(start, i, s._drawCalls[dcIndex].blend,
                      SpriteBlendMode(s._bufferedElements[i + 1]))
    THEN NextDrawCall(PackDrawCall(s, dcIndex, start, i), texArray, i, finish,
                      dcIndex + 1, SpriteBlendMode(s._bufferedElements[i + 1]))
    ELSE BlendLoop([s EXCEPT !._drawCalls[dcIndex].blend =
                                 SpriteBlendMode(s._bufferedElements[i + 1])],
                   texArray, start, i + 1, finish, dcIndex)

\* The end of buildDrawCalls, after its loop ended in l.
EmitLast(l, finish) ==
    IF l.s.crashed
    THEN l.s
    ELSE IF LastRunPending(l.s._drawCalls[l.dcIndex], l.start, finish)
    THEN [PackDrawCall(l.s, l.dcIndex, l.start, finish) EXCEPT !._dcIndex = l.dcIndex + 1]
    ELSE [l.s EXCEPT !._dcIndex = l.dcIndex]

\* buildDrawCalls(texArray, start, finish); texArray is the pool index of the array.
buildDrawCalls(s, texArray, start, finish) ==
    IF s._dcIndex \notin DOMAIN s._drawCalls
    THEN \* drawCalls[dcIndex] is undefined: drawCall.texArray throws
         [s EXCEPT !.crashed = TRUE]
    ELSE EmitLast(BlendLoop([s EXCEPT !._drawCalls[s._dcIndex].texArray = texArray,
                                      !._drawCalls[s._dcIndex].blend = -1],
                            texArray, start, start, finish, s._dcIndex),
                  finish)

\* ------------------------------------------------------- texture slot assigner

\* The log entry of a group closed from the fields s, leaving the fields s1.
LogGroup(s1, s, texArray, start, finish, TICK) ==
    [s1 EXCEPT !.groups = Append(@, [texArray |-> texArray,
                                     elements |-> s._textureArrays[texArray],
                                     count |-> Len(s._textureArrays[texArray]),
                                     start |-> start,
                                     finish |-> finish,
                                     tick |-> TICK,
                                     dcFrom |-> s._dcIndex,
                                     dcTo |-> s1._dcIndex])]

\* Closing a group: batch.boundArray(...) (external: assigns texture units), then
\* buildDrawCalls(texArray, start, finish). The group is logged as it is closed.
CloseGroup(s, texArray, start, finish, TICK) ==
    LogGroup(buildDrawCalls(s, texArray, start, finish), s, texArray, start, finish, TICK)

\* The test that closes the current texture array before a new texture is added.
ArrayFull(count, max) == count >= max

\* Mutant of Stamp: the texture is stamped with the global tick, which the local
\* TICK has left behind from the second group on.
StampGlobalTick(s, tex, TICK, texArray) ==
    IF texArray \notin DOMAIN s._textureArrays
    THEN [s EXCEPT !._batchEnabled[tex] = s._globalBatch, !.crashed = TRUE]
    ELSE [s EXCEPT !._batchEnabled[tex] = s._globalBatch,
                   !._textureArrays[texArray] = Append(@, tex)]

\* tex._batchEnabled = TICK; texArray.elements[texArray.count++] = tex
Stamp(s, tex, TICK, texArray) ==
    IF texArray \notin DOMAIN s._textureArrays
    THEN \* textureArrays[++countTexArrays] is undefined: texArray.elements throws
         [s EXCEPT !._batchEnabled[tex] = TICK, !.crashed = TRUE]
    ELSE [s EXCEPT !._batchEnabled[tex] = TICK,
                   !._textureArrays[texArray] = Append(@, tex)]

RECURSIVE TextureLoop(_, _, _, _, _)
RECURSIVE NextTexture(_, _, _, _, _, _)
RECURSIVE NextGroup(_, _, _, _, _)

\* After buildDrawCalls closed a full group in s: start = i;
\* texArray = textureArrays[++countTexArrays]; ++TICK; and the texture is stamped.
\* (TICK and countTexArrays are the values before the increment.)
NextGroup(s, tex, i, TICK, countTexArrays) ==
    IF s.crashed
    THEN [s |-> s, TICK |-> TICK, countTexArrays |-> countTexArrays, start |-> i]
    ELSE TextureLoop(Stamp(s, tex, TICK + 1, countTexArrays + 1),
                     i + 1, TICK + 1, countTexArrays + 1, i)

\* The body of the loop for texture tex = textures[i], after textures[i] = null.
NextTexture(s, tex, i, TICK, countTexArrays, start) ==
    IF s._batchEnabled[tex] = TICK
    THEN TextureLoop(s, i + 1, TICK, countTexArrays, start)
    ELSE IF ArrayFull(Len(s._textureArrays[countTexArrays]), s.MAX_TEXTURES)
    THEN NextGroup(CloseGroup(s, countTexArrays, start, i, TICK),
                   tex, i, TICK, countTexArrays)
    ELSE TextureLoop(Stamp(s, tex, TICK, countTexArrays),
                     i + 1, TICK, countTexArrays, start)

\* The loop of buildTexturesAndDrawCalls over elements i .. _bufferSize-1:
\* [s, TICK, countTexArrays, start] afterwards.
TextureLoop(s, i, TICK, countTexArrays, start) ==
    IF s.crashed \/ ~(i < s._bufferSize)
    THEN [s |-> s, TICK |-> TICK, countTexArrays |-> countTexArrays, start |-> start]
    ELSE NextTexture([s EXCEPT !._bufferedTextures[i + 1] = NoTexture],
                     s._bufferedTextures[i + 1], i, TICK, countTexArrays, start)

\* Mutant of SetGlobalBatch: the local TICK is not written back.
KeepGlobalBatch(s, TICK) == s

\* BaseTexture._globalBatch = TICK, unless an error left the method before.
SetGlobalBatch(s, TICK) ==
    IF s.crashed THEN s ELSE [s EXCEPT !._globalBatch = TICK]

\* The end of buildTexturesAndDrawCalls, after its loop ended in l.
CloseLastGroup(l) ==
    IF l.s.crashed
    THEN l.s
    ELSE IF Len(l.s._textureArrays[l.countTexArrays]) > 0
    THEN SetGlobalBatch(CloseGroup(l.s, l.countTexArrays, l.start, l.s._bufferSize, l.TICK),
                        l.TICK + 1)
    ELSE SetGlobalBatch(l.s, l.TICK)

\* buildTexturesAndDrawCalls(): TICK = ++BaseTexture._globalBatch, then the loop.
buildTexturesAndDrawCalls(s) ==
    CloseLastGroup(TextureLoop([s EXCEPT !._globalBatch = @ + 1],
                               0, s._globalBatch + 1, 0, 0))

\* ---------------------------------------------------------- flush orchestrator

\* Mutant of GeometryPoolExhausted: the pool grows one flush too late.
GeometryPoolExhaustedLate(packedGeometryPoolSize, flushId) ==
    packedGeometryPoolSize < flushId

\* The test of updateGeometry() that adds a geometry to _packedGeometries.
GeometryPoolExhausted(packedGeometryPoolSize, flushId) ==
    packedGeometryPoolSize <= flushId

\* updateGeometry(): the scratch buffers are uploaded to a geometry slot.
updateGeometry(s) ==
    IF ~s.CAN_UPLOAD_SAME_BUFFER
    THEN [s EXCEPT !._packedGeometryPoolSize =
                       IF GeometryPoolExhausted(@, s._flushId) THEN @ + 1 ELSE @,
                   !.gl = Append(@, [call |-> "upload", slot |-> s._flushId,
                                     slots |-> IF GeometryPoolExhausted(
                                                      s._packedGeometryPoolSize, s._flushId)
                                               THEN s._packedGeometryPoolSize + 1
                                               ELSE s._packedGeometryPoolSize]),
                   !._flushId = @ + 1]
    ELSE [s EXCEPT !.gl = Append(@, [call |-> "upload", slot |-> s._flushId,
                                     slots |-> s._packedGeometryPoolSize])]

\* bindAndClearTexArray(texArray)
bindAndClearTexArray(s, texArray) ==
    [s EXCEPT !.gl = Append(@, [call |-> "bind", texArray |-> texArray,
                                elements |-> s._textureArrays[texArray]]),
              !._textureArrays[texArray] = <<>>]

\* if (curTexArray !== texArray) this.bindAndClearTexArray(texArray)
BindIfNew(s, texArray, curTexArray) ==
    IF curTexArray # texArray THEN bindAndClearTexArray(s, texArray) ELSE s

\* stateSystem.setBlendMode(blend); gl.drawElements(type, size, gl.UNSIGNED_SHORT, start * 2)
DrawElements(s, drawCall) ==
    [s EXCEPT !.gl = @ \o <<[call |-> "setBlendMode", blend |-> drawCall.blend],
                            [call |-> "drawElements", size |-> drawCall.size,
                             start |-> drawCall.start,
                             texArray |-> drawCall.texArray,
                             blend |-> drawCall.blend]>>]

RECURSIVE DrawLoop(_, _, _, _)
\* The loop of drawBatches over draw calls i .. dcCount-1.
DrawLoop(s, i, dcCount, curTexArray) ==
    IF ~(i < dcCount)
    THEN s
    ELSE DrawLoop(DrawElements(BindIfNew(s, s._drawCalls[i].texArray, curTexArray),
                               s._drawCalls[i]),
                  i + 1, dcCount, s._drawCalls[i].texArray)

\* drawBatches()
drawBatches(s) == DrawLoop(s, 0, s._dcIndex, -1)

\* Mutant of NothingBuffered: the early return is never taken.
NothingBufferedNever(s) == s._vertexCount < 0

\* The early return of flush().
NothingBuffered(s) == s._vertexCount = 0

\* this._attributeBuffer = the buffer getAttributeBuffer just returned in s
SetAttributeBuffer(s) == [s EXCEPT !._attributeBuffer = Returned(s)]

\* this._indexBuffer = the buffer getIndexBuffer just returned in s, and the cursors reset
SetIndexBuffer(s) ==
    [s EXCEPT !._indexBuffer = Returned(s), !._aIndex = 0, !._iIndex = 0, !._dcIndex = 0]

\* The start of a flush of buffered elements: buffers acquired, cursors reset.
FlushBegin(s) ==
    SetIndexBuffer(getIndexBuffer(
        SetAttributeBuffer(getAttributeBuffer([s EXCEPT !.flushed = s._bufferedElements],
                                              s._vertexCount)),
        s._indexCount))

\* The end of a flush: upload, draw, and the element buffer reset.
FlushEnd(s) ==
    IF s.crashed
    THEN s
    ELSE [drawBatches(updateGeometry(s)) EXCEPT
              !._bufferSize = 0,
              !._vertexCount = 0,
              !._indexCount = 0,
              \* slots at and after _bufferSize are never read again
              !._bufferedElements = <<>>,
              !._bufferedTextures = <<>>]

\* flush()
flush(s) ==
    IF NothingBuffered(s)
    THEN s
    ELSE FlushEnd(buildTexturesAndDrawCalls(FlushBegin(s)))

\* -------------------------------------------------------------- element buffer

\* Mutant of Rejected: the texture's presence is tested, not its validity.
RejectedIfMissing(element) == element.tex = NoTexture

\* The filter of render(): the element's texture is not ready.
Rejected(element) == ~element.valid

\* Mutant of Overflows: the buffer is flushed as soon as it would be full.
OverflowsAtCapacity(s, element) == s._vertexCount + VertexCount(element) >= s.size

\* The capacity test of render().
Overflows(s, element) == s._vertexCount + VertexCount(element) > s.size

\* Mutant of Buffer: the index count grows by the element's vertices.
BufferCountingVerticesTwice(s, element) ==
    IF s.crashed
    THEN s
    ELSE [s EXCEPT !._vertexCount = @ + VertexCount(element),
                   !._indexCount = @ + VertexCount(element),
                   !._bufferedTextures = Append(@, element.tex),
                   !._bufferedElements = Append(@, element),
                   !._bufferSize = @ + 1]

\* The element and its texture are appended and counted.
Buffer(s, element) ==
    IF s.crashed
    THEN s
    ELSE [s EXCEPT !._vertexCount = @ + VertexCount(element),
                   !._indexCount = @ + IndexCount(element),
                   !._bufferedTextures = Append(@, element.tex),
                   !._bufferedElements = Append(@, element),
                   !._bufferSize = @ + 1]

\* render(element)
render(s, element) ==
    IF Rejected(element)
    THEN s
    ELSE Buffer(IF Overflows(s, element) THEN flush(s) ELSE s, element)

\* ------------------------------------------------------------------ behaviour

\* The pools of initFlushBuffers(): k = 0 .. while k < size / 4.
PoolIndices(capacity) == 0 .. (Ceil(capacity, 4) - 1)

\* The fields after an operation ended in s.
Becomes(s) ==
    /\ this_size' = s.size
    /\ _vertexCount' = s._vertexCount
    /\ _indexCount' = s._indexCount
    /\ _bufferedElements' = s._bufferedElements
    /\ _bufferedTextures' = s._bufferedTextures
    /\ _bufferSize' = s._bufferSize
    /\ _drawCalls' = s._drawCalls
    /\ _textureArrays' = s._textureArrays
    /\ _dcIndex' = s._dcIndex
    /\ _aIndex' = s._aIndex
    /\ _iIndex' = s._iIndex
    /\ _attributeBuffer' = s._attributeBuffer
    /\ _indexBuffer' = s._indexBuffer
    /\ _aBuffers' = s._aBuffers
    /\ _iBuffers' = s._iBuffers
    /\ MAX_TEXTURES' = s.MAX_TEXTURES
    /\ _flushId' = s._flushId
    /\ _packedGeometryPoolSize' = s._packedGeometryPoolSize
    /\ CAN_UPLOAD_SAME_BUFFER' = s.CAN_UPLOAD_SAME_BUFFER
    /\ _batchEnabled' = s._batchEnabled
    /\ _globalBatch' = s._globalBatch
    /\ crashed' = s.crashed
    /\ allocs' = s.allocs
    /\ acquired' = s.acquired
    /\ flushed' = s.flushed
    /\ groups' = s.groups
    /\ packed' = s.packed
    /\ gl' = s.gl

\* The renderer after its constructor and the context's first contextChange, with
\* this.size = capacity: MAX_TEXTURES is what the device reports,
\* CAN_UPLOAD_SAME_BUFFER what the platform allows.
Constructed(capacity) ==
    /\ this_size = capacity
    /\ _vertexCount = 0
    /\ _indexCount = 0
    /\ _bufferedElements = <<>>
    /\ _bufferedTextures = <<>>
    /\ _bufferSize = 0
    /\ _drawCalls = [k \in PoolIndices(capacity) |-> BatchDrawCall]
    /\ _textureArrays = [k \in PoolIndices(capacity) |-> BatchTextureArray]
    /\ _dcIndex = 0
    /\ _aIndex = 0
    /\ _iIndex = 0
    /\ _attributeBuffer = 0
    /\ _indexBuffer = 0
    /\ _aBuffers = <<>>
    /\ _iBuffers = <<>>
    /\ MAX_TEXTURES \in 1..MaxTexUnits
    /\ _flushId = 0
    /\ _packedGeometryPoolSize = InitialGeometryPoolSize
    /\ CAN_UPLOAD_SAME_BUFFER \in BOOLEAN
    /\ _batchEnabled = [t \in Textures |-> 0]
    /\ _globalBatch = 0
    /\ crashed = FALSE
    /\ allocs = <<>>
    /\ last = [op |-> "new", element |-> NullElement]
    /\ acquired = <<>>
    /\ flushed = <<>>
    /\ groups = <<>>
    /\ packed = <<>>
    /\ gl = <<>>

\* A renderer of sprites.
Init == Constructed(Size)

\* The scene submits an element.
Render ==
    /\ ~crashed
    /\ _globalBatch < MaxTick
    /\ \E element \in Elements :
          /\ Becomes(render(This, element))
          /\ last' = [op |-> "render", element |-> element]

\* The scene forces a flush (flush() or stop()).
Flush ==
    /\ ~crashed
    /\ _globalBatch < MaxTick
    /\ Becomes(flush(This))
    /\ last' = [op |-> "flush", element |-> NullElement]

\* The renderer's prerender signal.
OnPrerender ==
    /\ ~crashed
    /\ Becomes([This EXCEPT !._flushId = 0])
    /\ last' = [op |-> "onPrerender", element |-> NullElement]

Next == Render \/ Flush \/ OnPrerender

Spec == Init /\ [][Next]_vars

\* The growable buffer pool on its own: any sequence of requests to it.
AcquireAttributeBuffer ==
    /\ \E size \in 1..MaxRequest : Becomes(getAttributeBuffer(This, size))
    /\ last' = [op |-> "getAttributeBuffer", element |-> NullElement]

AcquireIndexBuffer ==
    /\ \E size \in 1..MaxRequest : Becomes(getIndexBuffer(This, size))
    /\ last' = [op |-> "getIndexBuffer", element |-> NullElement]

NextPool == AcquireAttributeBuffer \/ AcquireIndexBuffer

SpecPool == Init /\ [][NextPool]_vars

\* A renderer of meshes: any sequence of submitted triangles and forced flushes.
InitMesh == Constructed(MeshSize)

\* The scene submits a mesh.
RenderMesh ==
    /\ ~crashed
    /\ _globalBatch < MaxTick
    /\ \E element \in MeshElements :
          /\ Becomes(render(This, element))
          /\ last' = [op |-> "render", element |-> element]

NextMesh == RenderMesh \/ Flush

SpecMesh == InitMesh /\ [][NextMesh]_vars

\* ------------------------------------------------------- reading the logs

\* A flush of buffered elements ran to its end in the last operation.
FlushRan == flushed # <<>> /\ ~crashed

\* The draw invocations of the last operation, in issue order.
Draws == SelectSeq(gl, LAMBDA c : c.call = "drawElements")

\* The geometry uploads of the last operation.
Uploads == SelectSeq(gl, LAMBDA c : c.call = "upload")

\* The texture arrays the last operation bound, in order.
Binds == SelectSeq(gl, LAMBDA c : c.call = "bind")

\* The packed elements whose indices lie in the index range of draw invocation d.
Covered(d) ==
    SelectSeq(packed, LAMBDA p : d.start <= p.iStart /\ p.iStart < d.start + d.size)

RECURSIVE DrawnFrom(_)
\* The buffer positions of the elements drawn by draw invocations k .. last, in order.
DrawnFrom(k) ==
    IF k > Len(Draws)
    THEN <<>>
    ELSE [n \in 1..Len(Covered(Draws[k])) |-> Covered(Draws[k])[n].elem] \o DrawnFrom(k + 1)

RECURSIVE Runs(_, _, _)
\* The number of maximal runs of equal effective blend mode among elems[start .. finish-1]
\* (positions counted from 0).
Runs(elems, start, finish) ==
    IF start >= finish THEN 0
    ELSE IF start + 1 = finish THEN 1
    ELSE Runs(elems, start + 1, finish)
         + (IF SpriteBlendMode(elems[start + 1]) # SpriteBlendMode(elems[start + 2])
            THEN 1 ELSE 0)

RECURSIVE SumVertices(_)
\* The vertices of a sequence of elements.
SumVertices(elems) ==
    IF elems = <<>> THEN 0 ELSE VertexCount(Head(elems)) + SumVertices(Tail(elems))

RECURSIVE SumIndices(_)
\* The indices of a sequence of elements.
SumIndices(elems) ==
    IF elems = <<>> THEN 0 ELSE IndexCount(Head(elems)) + SumIndices(Tail(elems))

\* The members of a sequence.
Range(seq) == {seq[k] : k \in DOMAIN seq}

\* The groups of the last operation whose element range holds buffer position j.
GroupsOf(j) == {g \in DOMAIN groups : groups[g].start <= j /\ j < groups[g].finish}

\* The textures used by a sequence of elements.
TexturesOf(elems) == {elems[k].tex : k \in DOMAIN elems}

\* The effective blend modes of a sequence of elements.
BlendsOf(elems) == {SpriteBlendMode(elems[k]) : k \in DOMAIN elems}

\* ------------------------------------------------------------------ claims

\* C1: the draw calls issued by a flush, in issue order, cover every element
\* buffered for that flush exactly once and in submission order.
C1_OrderPreserved ==
    FlushRan => DrawnFrom(1) = [k \in 1..Len(flushed) |-> k - 1]

\* C2: every texture array holds at most MAX_TEXTURES textures: in the pool at
\* all times, when it is closed and when it is bound.
C2_SlotBound ==
    /\ \A k \in DOMAIN _textureArrays : Len(_textureArrays[k]) <= MAX_TEXTURES
    /\ \A n \in DOMAIN groups : groups[n].count <= MAX_TEXTURES
    /\ \A n \in DOMAIN Binds : Len(Binds[n].elements) <= MAX_TEXTURES

\* C3: a call buildDrawCalls(texArray, start, finish) with start < finish adds as
\* many draw calls as [start, finish) has maximal runs of one effective blend mode.
C3_OneDrawCallPerRun ==
    FlushRan =>
        \A n \in DOMAIN groups :
            groups[n].start < groups[n].finish =>
                groups[n].dcTo - groups[n].dcFrom
                    = Runs(flushed, groups[n].start, groups[n].finish)

\* C4: every element packed into the index range of an issued draw call has the
\* effective blend mode that is set for that draw call.
C4_BlendOfDrawCall ==
    FlushRan =>
        \A n \in DOMAIN Draws :
            \A m \in DOMAIN Covered(Draws[n]) :
                SpriteBlendMode(flushed[Covered(Draws[n])[m].elem + 1]) = Draws[n].blend

\* C5: every index written for an element is its local index plus the vertices of
\* the elements packed before it in the same flush, so that no two elements'
\* indices name the same vertex record.
C5_IndexRemap ==
    /\ \A n \in DOMAIN packed :
          LET local == flushed[packed[n].elem + 1].geom.indices
              before == SumVertices([m \in 1..(n - 1) |-> flushed[packed[m].elem + 1]])
          IN  /\ Len(packed[n].indices) = Len(local)
              /\ \A k \in DOMAIN local : packed[n].indices[k] = local[k] + before
    /\ \A n, m \in DOMAIN packed :
          n # m => {packed[n].indices[k] : k \in DOMAIN packed[n].indices}
                       \cap {packed[m].indices[k] : k \in DOMAIN packed[m].indices} = {}

\* C5 witness: a flush packed two elements in two packInterleavedGeometry calls.
C5_Witness ==
    FlushRan /\ Len(packed) = 2 /\ Len(Draws) = 2 /\ packed[2].indices[1] = 4

\* C6: a flush of elements that share one texture and one effective blend mode
\* closes one texture array of count 1 and issues one draw call, from index 0, as
\* long as the elements' indices; the attribute cursor ends at vertices x vertexSize.
C6_SingleBatch ==
    (FlushRan /\ Cardinality(TexturesOf(flushed)) = 1 /\ Cardinality(BlendsOf(flushed)) = 1)
        => /\ Len(groups) = 1
           /\ groups[1].count = 1
           /\ Len(Binds) = 1
           /\ Len(Binds[1].elements) = 1
           /\ Len(Draws) = 1
           /\ Draws[1].start = 0
           /\ Draws[1].size = SumIndices(flushed)
           /\ _aIndex = SumVertices(flushed) * vertexSize

\* C6 witness: a later flush, after one of two groups, drew two elements of one
\* texture and one blend mode.
C6_Witness ==
    /\ FlushRan
    /\ Len(flushed) = 2
    /\ Cardinality(TexturesOf(flushed)) = 1
    /\ Cardinality(BlendsOf(flushed)) = 1
    /\ _globalBatch >= 5
    /\ _drawCalls[1].start > 0

\* C7: with MAX_TEXTURES = 1, a flush of elements of two textures, those of the
\* first before those of the second, closes two groups and issues two or more draws.
C7_TwoGroups ==
    (/\ FlushRan
     /\ MAX_TEXTURES = 1
     /\ Cardinality(TexturesOf(flushed)) = 2
     /\ \A k, n \in DOMAIN flushed :
           (k < n /\ flushed[k].tex = flushed[n].tex) =>
               \A m \in k..n : flushed[m].tex = flushed[k].tex)
        => (Len(groups) = 2 /\ Len(Draws) >= 2)

\* The size classes of a pool with the given granule.
SizeClasses(granule) == {granule * 2^k : k \in 0..8}

\* The smallest size class that holds n.
SizeClass(granule, n) ==
    CHOOSE c \in SizeClasses(granule) :
        c >= n /\ \A d \in SizeClasses(granule) : d >= n => c <= d

\* The granule of the pool a request went to.
GranuleOf(pool) == IF pool = "attribute" THEN AttributeGranule ELSE IndexGranule

\* No two buffers were ever constructed for one size class of one pool.
OneBufferPerClass ==
    \A a, b \in DOMAIN allocs :
        (allocs[a].pool = allocs[b].pool /\ allocs[a].class = allocs[b].class) => a = b

\* Every request was answered with a buffer of its pool and of its size class.
ReturnedOfClass ==
    \A n \in DOMAIN acquired :
        /\ acquired[n].buffer \in DOMAIN allocs
        /\ allocs[acquired[n].buffer].pool = acquired[n].pool
        /\ allocs[acquired[n].buffer].class
               = SizeClass(GranuleOf(acquired[n].pool), acquired[n].size)

\* A request that follows one of the same pool and size class is answered with the
\* same buffer, and constructs none.
SameClassSameBuffer ==
    (/\ acquired # <<>>
     /\ acquired' # <<>>
     /\ acquired'[1].pool = acquired[1].pool
     /\ SizeClass(GranuleOf(acquired[1].pool), acquired'[1].size)
            = SizeClass(GranuleOf(acquired[1].pool), acquired[1].size))
        => (acquired'[1].buffer = acquired[1].buffer /\ allocs' = allocs)

\* C8: getAttributeBuffer and getIndexBuffer are idempotent per size class: requests
\* that round to one size class return the same cached buffer, and at most one
\* buffer is ever constructed per size class.
C8_BufferReuse ==
    [](OneBufferPerClass /\ ReturnedOfClass) /\ [][SameClassSameBuffer]_vars

\* C8 witness: with three buffers constructed, a request was answered from the cache.
C8_Witness ==
    /\ acquired # <<>>
    /\ Len(allocs) >= 3
    /\ acquired[1].buffer < Len(allocs)
    /\ acquired[1].size < allocs[acquired[1].buffer].class

\* The cursors of a flush session.
Cursors == <<_vertexCount, _indexCount, _bufferSize, _dcIndex, _aIndex, _iIndex>>

\* C9 as claimed: a flush called with no buffered vertices makes no draw invocation
\* and leaves all cursors at zero.
C9_CursorsAtZero ==
    (last.op = "flush" /\ flushed = <<>>)
        => (gl = <<>> /\ Cursors = <<0, 0, 0, 0, 0, 0>>)

\* C9 as amended: a flush called with no buffered vertices makes no graphics-context
\* call and leaves every cursor as it was.
C9_EmptyFlushIsNoOp ==
    [][(last'.op = "flush" /\ _vertexCount = 0) => (gl' = <<>> /\ Cursors' = Cursors)]_vars

\* C9 witness: flush was called with nothing buffered, after a flush that drew.
C9_Witness ==
    last.op = "flush" /\ flushed = <<>> /\ _vertexCount = 0 /\ _dcIndex > 0

\* C10: render of an element whose texture is not valid triggers no flush, raises
\* no error and leaves the element buffer and its counts unchanged.
C10_RejectedIsNoOp ==
    [][(last'.op = "render" /\ ~last'.element.valid)
          => /\ UNCHANGED <<_bufferedElements, _bufferedTextures, _bufferSize,
                            _vertexCount, _indexCount>>
             /\ flushed' = <<>>
             /\ gl' = <<>>
             /\ _globalBatch' = _globalBatch
             /\ ~crashed']_vars

\* C10 witness: an element with an invalid texture was submitted when a valid one
\* of its size would have triggered a flush.
C10_Witness ==
    /\ last.op = "render"
    /\ ~last.element.valid
    /\ _bufferSize > 0
    /\ Overflows(This, last.element)

\* The buffered vertices plus those of the element being submitted exceed the capacity.
ExceedsCapacity == _vertexCount + last'.element.geom.nv > this_size

\* C11: render of a valid element runs a flush exactly when the buffered vertices
\* plus the element's exceed the capacity; the flush takes the elements buffered
\* before, and the element is then the only one buffered; with no flush the element
\* is appended behind those buffered and nothing is drawn.
C11_FlushBeforeAppend ==
    [][(last'.op = "render" /\ last'.element.valid /\ ~crashed')
          => /\ (flushed' # <<>>) <=> ExceedsCapacity
             /\ ExceedsCapacity
                    => /\ flushed' = _bufferedElements
                       /\ \A n \in DOMAIN packed' : packed'[n].elem < Len(_bufferedElements)
                       /\ _bufferedElements' = <<last'.element>>
                       /\ _bufferSize' = 1
                       /\ _vertexCount' = VertexCount(last'.element)
                       /\ _indexCount' = IndexCount(last'.element)
             /\ ~ExceedsCapacity
                    => /\ gl' = <<>>
                       /\ _bufferedElements' = Append(_bufferedElements, last'.element)
                       /\ _bufferSize' = _bufferSize + 1
                       /\ _vertexCount' = _vertexCount + VertexCount(last'.element)]_vars

\* C11 witness: a render flushed two buffered elements and buffered its own.
C11_Witness ==
    /\ last.op = "render"
    /\ last.element.valid
    /\ Len(flushed) = 2
    /\ Draws # <<>>
    /\ _bufferedElements = <<last.element>>

\* C12: no operation reads a slot of the draw-call pool or of the texture-array
\* pool past the size / 4 entries allocated at construction.
C12_PoolsSuffice ==
    /\ ~crashed
    /\ _dcIndex <= Cardinality(PoolIndices(this_size))
    /\ \A n \in DOMAIN groups : groups[n].texArray \in PoolIndices(this_size)

\* What a step does to the geometry slot cursor.
SlotStep ==
    /\ (flushed' # <<>> /\ ~crashed')
          => /\ Len(Uploads') = 1
             /\ Uploads'[1].slot = _flushId
             /\ Uploads'[1].slot < Uploads'[1].slots
             /\ _packedGeometryPoolSize' = Uploads'[1].slots
             /\ _packedGeometryPoolSize' >= _packedGeometryPoolSize
             /\ IF CAN_UPLOAD_SAME_BUFFER
                THEN Uploads'[1].slot = 0 /\ _flushId' = 0
                ELSE _flushId' = _flushId + 1
    /\ last'.op = "onPrerender" => _flushId' = 0
    /\ (flushed' = <<>> /\ last'.op # "onPrerender")
          => (Uploads' = <<>> /\ _flushId' = _flushId)

\* C13: the slot cursor starts at 0; where one buffer may be uploaded again, every
\* flush uploads to slot 0 and the cursor stays 0; elsewhere every flush that draws
\* uploads to the slot at the cursor, which the pool holds by then, and moves the
\* cursor on by one; the prerender signal puts the cursor back to 0 and nothing
\* else moves it.
C13_GeometrySlot ==
    (_flushId = 0) /\ [][SlotStep]_vars

\* C13 witness: a third flush since the last prerender signal went to a geometry
\* added for it.
C13_Witness ==
    /\ FlushRan
    /\ ~CAN_UPLOAD_SAME_BUFFER
    /\ Uploads[1].slot = 2
    /\ _packedGeometryPoolSize = 3
    /\ _flushId = 3

\* C14: when a flush has returned, every texture array of the pool is empty.
C14_ArraysReset ==
    FlushRan => \A k \in DOMAIN _textureArrays : _textureArrays[k] = <<>>

\* C15: every packed element lies in one closed group; its texture is in that
\* group's texture array, as closed and as bound for the draw call that covers the
\* element, and carried the group's tick when the element was packed.
C15_StampOfGroup ==
    /\ \A n \in DOMAIN packed :
          /\ Cardinality(GroupsOf(packed[n].elem)) = 1
          /\ \A g \in GroupsOf(packed[n].elem) :
                /\ flushed[packed[n].elem + 1].tex \in Range(groups[g].elements)
                /\ packed[n].stamp = groups[g].tick
    /\ \A d \in DOMAIN Draws :
          \A m \in DOMAIN Covered(Draws[d]) :
              \E b \in DOMAIN Binds :
                  /\ Binds[b].texArray = Draws[d].texArray
                  /\ flushed[Covered(Draws[d])[m].elem + 1].tex \in Range(Binds[b].elements)

\* C15 witness: a flush packed the elements of two groups, after an earlier flush
\* had stamped both textures.
C15_Witness ==
    /\ FlushRan
    /\ Len(groups) = 2
    /\ Len(packed) = 2
    /\ packed[1].stamp > 2
    /\ packed[2].stamp = packed[1].stamp + 1

\* C16: the textures of every texture array closed by a flush are pairwise distinct.
C16_DistinctTextures ==
    \A n \in DOMAIN groups :
        Cardinality(Range(groups[n].elements)) = Len(groups[n].elements)

\* What a step does to the global tick, and the ticks its groups are built under.
TickStep ==
    /\ _globalBatch' >= _globalBatch
    /\ (flushed' # <<>> /\ ~crashed') => _globalBatch' > _globalBatch
    /\ ~crashed' =>
          \A n \in DOMAIN groups' :
              /\ _globalBatch < groups'[n].tick
              /\ groups'[n].tick < _globalBatch'
              /\ \A m \in DOMAIN groups' : n < m => groups'[n].tick < groups'[m].tick

\* C17: the global tick never decreases and grows over every flush that draws;
\* the groups of a flush are built under ticks that grow from group to group and
\* lie strictly between the global tick before the flush and the one after it, so
\* that no two groups of one flush or of two flushes share a tick.
C17_TickMonotonic ==
    [][TickStep]_vars

\* C17 witness: a flush of two groups, after an earlier flush of two groups.
C17_Witness ==
    /\ FlushRan
    /\ Len(groups) = 2
    /\ groups[1].tick >= 4
    /\ groups[2].tick = groups[1].tick + 1
    /\ _globalBatch = groups[2].tick + 1

\* C18: in an operation that flushed, the scratch buffers are the two acquired at
\* the start of the flush, every element is packed inside them, and the attribute
\* and index cursors end within their lengths.
C18_WithinBuffers ==
    flushed # <<>> =>
        /\ Len(acquired) = 2
        /\ _attributeBuffer = acquired[1].buffer
        /\ allocs[_attributeBuffer].pool = "attribute"
        /\ _indexBuffer = acquired[2].buffer
        /\ allocs[_indexBuffer].pool = "index"
        /\ _aIndex <= allocs[_attributeBuffer].length
        /\ _iIndex <= allocs[_indexBuffer].length
        /\ \A n \in DOMAIN packed :
              /\ packed[n].aStart >= 0
              /\ packed[n].aStart + LanesWritten * packed[n].vertices
                     <= allocs[_attributeBuffer].length
              /\ packed[n].iStart >= 0
              /\ packed[n].iStart + Len(packed[n].indices) <= allocs[_indexBuffer].length

\* C18 witness: a flush filled a buffer of the second size class to its last lane.
C18_Witness ==
    /\ FlushRan
    /\ allocs[_attributeBuffer].class = 2 * AttributeGranule
    /\ _aIndex > AttributeGranule * vertexSize
    /\ Len(packed) >= 3

\* C19: the index ranges of the draw invocations of a flush, in issue order, start
\* at 0, each start where the one before ends, and end at the number of indices
\* buffered for the flush.
C19_RangesTile ==
    FlushRan =>
        /\ Draws # <<>>
        /\ Draws[1].start = 0
        /\ \A n \in 1..(Len(Draws) - 1) :
              Draws[n + 1].start = Draws[n].start + Draws[n].size
        /\ Draws[Len(Draws)].start + Draws[Len(Draws)].size = SumIndices(flushed)

\* The positions in the graphics-context log where texture array a is bound.
BindsOf(a) == {k \in DOMAIN gl : gl[k].call = "bind" /\ gl[k].texArray = a}

\* C20: every texture array a flush closed a group with is bound exactly once in
\* that flush, before the first draw invocation that uses it, and every draw
\* invocation directly follows the setting of its blend mode.
C20_BoundOnce ==
    FlushRan =>
        /\ \A g \in DOMAIN groups : Cardinality(BindsOf(groups[g].texArray)) = 1
        /\ \A k \in DOMAIN gl :
              gl[k].call = "drawElements" =>
                  /\ \E b \in BindsOf(gl[k].texArray) : b < k
                  /\ gl[k - 1].call = "setBlendMode"
                  /\ gl[k - 1].blend = gl[k].blend

\* The block returned for request r holds granule * 2^k units of unit lanes each,
\* for the smallest k >= 0 that makes granule * 2^k >= the requested size.
SmallestBlock(r, granule, unit) ==
    \E k \in 0..8 :
        /\ allocs[r.buffer].class = granule * 2^k
        /\ allocs[r.buffer].length = granule * 2^k * unit
        /\ granule * 2^k >= r.size
        /\ k > 0 => granule * 2^(k - 1) < r.size

\* C21: a request of n >= 1 to getAttributeBuffer returns a block of 8 * 2^k vertex
\* records, one to getIndexBuffer a block of 12 * 2^k indices, k being the smallest
\* non-negative integer that makes the block hold n; no block is smaller than n.
C21_SmallestPowerOfTwoBlock ==
    \A n \in DOMAIN acquired :
        /\ acquired[n].buffer \in DOMAIN allocs
        /\ allocs[acquired[n].buffer].class >= acquired[n].size
        /\ IF acquired[n].pool = "attribute"
           THEN SmallestBlock(acquired[n], 8, vertexSize)
           ELSE SmallestBlock(acquired[n], 12, 1)

\* C21 witness: a request one past a block size was answered with the next block,
\* of the third size class.
C21_Witness ==
    /\ acquired # <<>>
    /\ acquired[1].pool = "attribute"
    /\ acquired[1].size = 17
    /\ allocs[acquired[1].buffer].class = 32

\* C22: after every operation that raised no error, the vertex and index counts
\* are the sums over the buffered elements [0, _bufferSize), each of which has its
\* texture buffered beside it; after a forced flush that drew, the three counts are
\* 0; and with no element larger than the capacity, the vertex count is at most the
\* capacity.
C22_CountsMatchBuffer ==
    ~crashed =>
        /\ Len(_bufferedElements) = _bufferSize
        /\ Len(_bufferedTextures) = _bufferSize
        /\ \A k \in DOMAIN _bufferedElements :
              /\ _bufferedElements[k] \in Elements \cup MeshElements
              /\ _bufferedTextures[k] = _bufferedElements[k].tex
        /\ _vertexCount = SumVertices(_bufferedElements)
        /\ _indexCount = SumIndices(_bufferedElements)
        /\ (last.op = "flush" /\ flushed # <<>>)
              => <<_vertexCount, _indexCount, _bufferSize>> = <<0, 0, 0>>
        /\ _vertexCount <= this_size

\* C22 witness: after an earlier flush, two elements are buffered and fill the
\* capacity.
C22_Witness ==
    /\ ~crashed
    /\ last.op = "render"
    /\ _globalBatch > 0
    /\ _bufferSize = 2
    /\ _vertexCount = this_size
    /\ _indexCount = 12

=============================================================================
